---- MODULE Spec2Model ----
(***************************************************************************)
(* Model of src/plot.js: the AUROCDifferencePlot component.                *)
(*                                                                         *)
(* The component holds three pieces of view state (data, avgDifference,    *)
(* loading), starts one asynchronous load in its mount effect, and renders *)
(* either a loading indicator or the chart with its summary tiles.         *)
(*                                                                         *)
(* Numbers are exact: an AUROC value is an integer number of hundredths    *)
(* (0.85 is 85), a difference is an integer, and the average is a reduced  *)
(* fraction.  Floating-point rounding is not modelled.  A JavaScript value *)
(* is a record [t, v] whose tag t is one of "undefined", "null", "number", *)
(* "string", "NaN" (NaN is the one number that is not an integer here).    *)
(***************************************************************************)
EXTENDS Integers, Sequences, FiniteSets

VARIABLES
    data,           \* useState([])    : sequence of ComparisonRow
    avgDifference,  \* useState(0)     : average (fraction or NaN)
    loading,        \* useState(true)
    pc,             \* position of the mount effect / loadData
    mounted,        \* whether the component is still mounted
    batching,       \* whether the renderer batches state updates made after an await
    queue,          \* state updates enqueued and not yet flushed (batching only)
    parsed,         \* loadData's local parsed.data (the RawRow sequence)
    processedData,  \* loadData's local processedData
    avgDiff,        \* loadData's local avgDiff
    view,           \* what the last render returned
    promise,        \* the promise returned by loadData()
    failure,        \* what raised the exception the catch block caught, if any
    logged,         \* number of console.error('Error loading data:') calls
    clears          \* number of setLoading(false) calls made

vars == <<data, avgDifference, loading, pc, mounted, batching, queue, parsed,
          processedData, avgDiff, view, promise, failure, logged, clears>>

(***************************************************************************)
(* Bounds                                                                  *)
(***************************************************************************)
\* the largest number of lines after the header in the file read
MaxRows == 2

(***************************************************************************)
(* JavaScript values                                                       *)
(***************************************************************************)
Undefined == [t |-> "undefined", v |-> 0]
Null      == [t |-> "null", v |-> 0]
NaN       == [t |-> "NaN", v |-> 0]
Str       == [t |-> "string", v |-> 0]     \* a non-empty, non-numeric string
Num(n)    == [t |-> "number", v |-> n]

\* the operand of x || 0 is falsy: undefined, null, 0 and NaN are; a non-empty
\* string is not
Falsy(x) == \/ x.t \in {"undefined", "null", "NaN"}
            \/ (x.t = "number" /\ x.v = 0)

\* a variant that defaults everything but a non-zero number: Number(x) || 0
OrZeroUnlessNumber(x) == IF x.t = "number" /\ x.v # 0 THEN x ELSE Num(0)

\* x || 0
OrZero(x) == IF Falsy(x) THEN Num(0) ELSE x

\* the numeric conversion applied to an operand of binary minus
ToNumber(x) ==
    CASE x.t = "number"    -> x
      [] x.t = "null"      -> Num(0)
      [] x.t = "undefined" -> NaN
      [] x.t = "string"    -> NaN     \* the string is not numeric text
      [] x.t = "NaN"       -> NaN

\* a - b
Minus(a, b) ==
    LET x == ToNumber(a)
        y == ToNumber(b)
    IN  IF x.t = "NaN" \/ y.t = "NaN" THEN NaN ELSE Num(x.v - y.v)

\* isNaN(d)
IsNaN(d) == ToNumber(d).t = "NaN"

\* d > 0, d < 0, d === 0 on a number (every comparison with NaN is false)
GreaterThanZero(d) == d.t = "number" /\ d.v > 0
LessThanZero(d)    == d.t = "number" /\ d.v < 0
StrictEqualsZero(d) == d.t = "number" /\ d.v = 0

(***************************************************************************)
(* The file and the parser (Papa.parse with header, dynamicTyping and      *)
(* skipEmptyLines)                                                         *)
(***************************************************************************)
\* the text of one cell
EmptyText   == [k |-> "empty", n |-> 0]
WordText    == [k |-> "word", n |-> 0]       \* text that is not a number
NumText(n)  == [k |-> "numeric", n |-> n]    \* the decimal text of n hundredths

RowIndexTexts  == {EmptyText, NumText(7)}
XgboostTexts   == {EmptyText, WordText, NumText(80), NumText(90)}
\* (a row without a 'Neural Net (AUROC)' value comes from a header without
\* that column; an empty cell is covered by the Xgboost column)
NeuralNetTexts == {WordText, NumText(85), NumText(95)}
DifferenceTexts == {NumText(7)}
\* values the Difference cell is varied over when its influence is examined
OtherDifferenceTexts == {EmptyText, WordText, NumText(7), NumText(-5), NumText(15)}

\* one line of the file after the header: an empty line, or one cell per column
\* of the header (the cell of a column the header lacks is not in the file and
\* is held as EmptyText)
BlankLine == [blank |-> TRUE, ri |-> EmptyText, xgb |-> EmptyText,
              nn |-> EmptyText, diff |-> NumText(7)]

LinesOf(hasRowIndex, hasNeuralNet) ==
    {BlankLine} \cup
    [blank : {FALSE},
     ri    : IF hasRowIndex THEN RowIndexTexts ELSE {EmptyText},
     xgb   : XgboostTexts,
     nn    : IF hasNeuralNet THEN NeuralNetTexts ELSE {EmptyText},
     diff  : DifferenceTexts]

SeqsUpTo(S, n) == UNION {[1..k -> S] : k \in 0..n}

\* the files read: a header with or without the 'Row Index' and the
\* 'Neural Net (AUROC)' columns, and at most MaxRows lines
Files ==
    UNION {[hasRowIndex : {hri}, hasNeuralNet : {hnn},
            lines : SeqsUpTo(LinesOf(hri, hnn), MaxRows)] :
           hri \in BOOLEAN, hnn \in BOOLEAN}

\* dynamicTyping: numeric text becomes a number, empty text null, other text
\* stays a string
DynamicType(text) ==
    CASE text.k = "numeric" -> Num(text.n)
      [] text.k = "empty"   -> Null
      [] text.k = "word"    -> Str

\* header: true - a row is keyed by the header's columns; a key the header
\* lacks is undefined on the row
ParseLine(file, line) ==
    [RowIndex   |-> IF file.hasRowIndex THEN DynamicType(line.ri) ELSE Undefined,
     Xgboost    |-> DynamicType(line.xgb),
     NeuralNet  |-> IF file.hasNeuralNet THEN DynamicType(line.nn) ELSE Undefined,
     Difference |-> DynamicType(line.diff)]

NotBlank(line) == ~line.blank

\* Papa.parse(fileContent, {...}).data: one row per line that is not empty
\* (skipEmptyLines), in the order of the file
PapaParse(file) ==
    LET kept == SelectSeq(file.lines, NotBlank)
    IN  [i \in 1..Len(kept) |-> ParseLine(file, kept[i])]

(***************************************************************************)
(* The Transformer: parsed.data.map((row, index) => ...)                   *)
(***************************************************************************)
\* rowIndex: row['Row Index'] !== undefined ? row['Row Index'] : index
RowIndexOf(row, index) ==
    IF row.RowIndex # Undefined THEN row.RowIndex ELSE Num(index)

\* a variant that takes the difference from the file's own Difference column
DifferenceFromColumn(row) == OrZero(row.Difference)

\* const nnMinusXgb = (row['Neural Net (AUROC)'] || 0) - (row['Xgboost (AUROC)'] || 0)
NnMinusXgb(row) == Minus(OrZero(row.NeuralNet), OrZero(row.Xgboost))

\* the ComparisonRow returned for one row; index is zero-based
ProcessRow(row, index) ==
    [rowIndex           |-> RowIndexOf(row, index),
     xgboost            |-> OrZero(row.Xgboost),
     neuralNet          |-> OrZero(row.NeuralNet),
     difference         |-> NnMinusXgb(row),
     originalDifference |-> OrZero(row.Difference)]

\* parsed.data.map(...)
ProcessedData(rows) == [i \in 1..Len(rows) |-> ProcessRow(rows[i], i - 1)]

(***************************************************************************)
(* The Aggregator                                                          *)
(***************************************************************************)
NotNaN(d) == ~IsNaN(d)

\* processedData.map(d => d.difference).filter(d => !isNaN(d))
ValidDifferences(processed) ==
    SelectSeq([i \in 1..Len(processed) |-> processed[i].difference], NotNaN)

RECURSIVE SumTo(_, _)
\* seq.reduce((sum, val) => sum + val, 0) over the first k entries of seq
SumTo(seq, k) ==
    IF k = 0 THEN 0 ELSE SumTo(seq, k - 1) + seq[k].v

Abs(n) == IF n < 0 THEN -n ELSE n

RECURSIVE Gcd(_, _)
Gcd(a, b) == IF b = 0 THEN a ELSE Gcd(b, a % b)

NaNAverage == [t |-> "NaN", num |-> 0, den |-> 1]
\* the number n / d for d > 0, as a reduced fraction
Fraction(n, d) ==
    LET g == Gcd(Abs(n), d)
    IN  [t |-> "number", num |-> n \div g, den |-> d \div g]

\* sum / count: 0 / 0 is NaN, x / 0 an infinity
Divide(sum, count) ==
    IF count = 0
    THEN IF sum = 0 THEN NaNAverage
         ELSE [t |-> "Infinity", num |-> IF sum > 0 THEN 1 ELSE -1, den |-> 1]
    ELSE Fraction(sum, count)

\* a variant that divides by the number of all rows: processedData.length
AvgDivisorAllRows(processed) == Len(processed)

\* the divisor of the average: validDifferences.length
AvgDivisor(processed) == Len(ValidDifferences(processed))

\* the average of the valid differences
AvgDiff(processed) ==
    Divide(SumTo(ValidDifferences(processed), Len(ValidDifferences(processed))),
           AvgDivisor(processed))

(***************************************************************************)
(* The Renderer                                                            *)
(***************************************************************************)
IsWin(d)  == GreaterThanZero(d.difference)
IsLoss(d) == LessThanZero(d.difference)
IsTie(d)  == StrictEqualsZero(d.difference)

IsNotLoss(d) == ~LessThanZero(d.difference)

\* a variant of the tie tile that counts every row that is not a loss
TiesNotLosses(d) == Cardinality({i \in 1..Len(d) : IsNotLoss(d[i])})

\* data.filter(d => d.difference > 0).length and its two siblings
Wins(d) == Cardinality({i \in 1..Len(d) : IsWin(d[i])})
Losses(d) == Cardinality({i \in 1..Len(d) : IsLoss(d[i])})
Ties(d) == Cardinality({i \in 1..Len(d) : IsTie(d[i])})

ZeroAverage == [t |-> "number", num |-> 0, den |-> 1]

LoadingView == [kind |-> "loading", data |-> <<>>, avg |-> ZeroAverage,
                total |-> 0, wins |-> 0, losses |-> 0, ties |-> 0]
NoView      == [kind |-> "none", data |-> <<>>, avg |-> ZeroAverage,
                total |-> 0, wins |-> 0, losses |-> 0, ties |-> 0]

\* what the component function returns for the given state
Render(d, avg, ld) ==
    IF ld THEN LoadingView
    ELSE [kind |-> "chart", data |-> d, avg |-> avg, total |-> Len(d),
          wins |-> Wins(d), losses |-> Losses(d), ties |-> Ties(d)]

(***************************************************************************)
(* State updates                                                           *)
(***************************************************************************)
SetData(d)          == [field |-> "data", data |-> d, avg |-> ZeroAverage, loading |-> FALSE]
SetAvgDifference(a) == [field |-> "avgDifference", data |-> <<>>, avg |-> a, loading |-> FALSE]
SetLoading(b)       == [field |-> "loading", data |-> <<>>, avg |-> ZeroAverage, loading |-> b]

State == [data |-> data, avgDifference |-> avgDifference, loading |-> loading]

IsLoadingWrite(u) == u.field = "loading"

\* the state after one update
Apply(st, u) ==
    CASE u.field = "data"          -> [st EXCEPT !.data = u.data]
      [] u.field = "avgDifference" -> [st EXCEPT !.avgDifference = u.avg]
      [] u.field = "loading"       -> [st EXCEPT !.loading = u.loading]

RECURSIVE ApplyFirst(_, _, _)
\* the state after the first k of the updates us, in order
ApplyFirst(st, us, k) ==
    IF k = 0 THEN st ELSE Apply(ApplyFirst(st, us, k - 1), us[k])

ApplyAll(st, us) == ApplyFirst(st, us, Len(us))

\* a variant in which a setter also writes the state of a torn-down component
SetterAlwaysTakesEffect == TRUE

\* whether a state setter called now reaches the component
SetterTakesEffect == mounted

\* state setter calls made in one synchronous stretch: dropped on an
\* unmounted component, enqueued when the renderer batches, otherwise applied
\* and rendered at once
Dispatch(us) ==
    IF ~SetterTakesEffect \/ us = <<>>
    THEN UNCHANGED <<data, avgDifference, loading, queue, view>>
    ELSE IF batching
         THEN /\ queue' = queue \o us
              /\ UNCHANGED <<data, avgDifference, loading, view>>
         ELSE LET st == ApplyAll(State, us)
              IN  /\ data' = st.data
                  /\ avgDifference' = st.avgDifference
                  /\ loading' = st.loading
                  /\ view' = Render(st.data, st.avgDifference, st.loading)
                  /\ queue' = queue

\* a variant that clears the loading flag before it stores the results
CommitWritesLoadingFirst(processed, avg) ==
    <<SetLoading(FALSE), SetData(processed), SetAvgDifference(avg)>>

\* the three writes of a successful load, in program order
CommitWrites(processed, avg) ==
    <<SetData(processed), SetAvgDifference(avg), SetLoading(FALSE)>>

\* a variant whose catch block forgets the loading flag
CatchWritesNothing == <<>>

\* a variant whose catch block stores the aggregate of an empty Dataset
CatchWritesEmptyResult ==
    <<SetData(<<>>), SetAvgDifference(AvgDiff(<<>>)), SetLoading(FALSE)>>

\* the writes of the catch block
CatchWrites == <<SetLoading(FALSE)>>

\* a variant whose catch block rethrows
CatchRethrows == "rejected"

\* how the promise of loadData settles after the catch block ran
CatchSettles == "fulfilled"

(***************************************************************************)
(* The component                                                           *)
(***************************************************************************)
Init ==
    /\ data = <<>>
    /\ avgDifference = ZeroAverage
    /\ loading = TRUE
    /\ pc = "start"
    /\ mounted = TRUE
    /\ batching \in BOOLEAN
    /\ queue = <<>>
    /\ parsed = <<>>
    /\ processedData = <<>>
    /\ avgDiff = ZeroAverage
    /\ view = LoadingView
    /\ promise = "none"
    /\ failure = "none"
    /\ logged = 0
    /\ clears = 0

\* the catch block: log, then its writes; loadData then returns
Catch(raisedBy) ==
    /\ failure' = raisedBy
    /\ logged' = logged + 1
    /\ Dispatch(CatchWrites)
    /\ clears' = clears + Len(SelectSeq(CatchWrites, IsLoadingWrite))
    /\ UNCHANGED <<processedData, avgDiff>>
    /\ promise' = CatchSettles
    /\ pc' = "done"

\* the effect calls loadData(), which runs up to the await
StartLoad ==
    /\ pc = "start"
    /\ pc' = "pending"
    /\ promise' = "pending"
    /\ UNCHANGED <<data, avgDifference, loading, mounted, batching, queue,
                   parsed, processedData, avgDiff, view, failure, logged, clears>>

\* window.fs.readFile throws before returning a promise
StartLoadThrows ==
    /\ pc = "start"
    /\ Catch("readFile throws")
    /\ UNCHANGED <<mounted, batching, parsed>>

\* the read rejects
ReadReject ==
    /\ pc = "pending"
    /\ Catch("readFile rejects")
    /\ UNCHANGED <<mounted, batching, parsed>>

\* the read resolves with something that is not text: Papa.parse throws
ReadResolveNotText ==
    /\ pc = "pending"
    /\ Catch("Papa.parse throws")
    /\ UNCHANGED <<mounted, batching, parsed>>

\* the k-th write of a successful load
Write(k, processed, avg) ==
    LET w == CommitWrites(processed, avg)[k]
    IN  /\ Dispatch(<<w>>)
        /\ clears' = clears + (IF IsLoadingWrite(w) THEN 1 ELSE 0)

\* the read resolves with the text of a file: parse, transform, aggregate,
\* and the first write
ReadResolve ==
    /\ pc = "pending"
    /\ \E file \in Files :
          LET rows == PapaParse(file)
              processed == ProcessedData(rows)
              avg == AvgDiff(processed)
          IN  /\ parsed' = rows
              /\ processedData' = processed
              /\ avgDiff' = avg
              /\ Write(1, processed, avg)
    /\ pc' = "write2"
    /\ UNCHANGED <<mounted, batching, promise, failure, logged>>

\* the second write
SecondWrite ==
    /\ pc = "write2"
    /\ Write(2, processedData, avgDiff)
    /\ pc' = "write3"
    /\ UNCHANGED <<mounted, batching, parsed, processedData, avgDiff, promise,
                   failure, logged>>

\* the third write; loadData returns
ThirdWrite ==
    /\ pc = "write3"
    /\ Write(3, processedData, avgDiff)
    /\ pc' = "done"
    /\ promise' = "fulfilled"
    /\ UNCHANGED <<mounted, batching, parsed, processedData, avgDiff, failure,
                   logged>>

\* the renderer processes the enqueued updates in one render
Flush ==
    /\ pc = "done"
    /\ mounted
    /\ queue # <<>>
    /\ LET st == ApplyAll(State, queue)
       IN  /\ data' = st.data
           /\ avgDifference' = st.avgDifference
           /\ loading' = st.loading
           /\ view' = Render(st.data, st.avgDifference, st.loading)
    /\ queue' = <<>>
    /\ UNCHANGED <<pc, mounted, batching, parsed, processedData, avgDiff,
                   promise, failure, logged, clears>>

\* the component is torn down (between two turns of the event loop)
Unmount ==
    /\ mounted
    /\ pc \in {"pending", "done"}
    /\ mounted' = FALSE
    /\ view' = NoView
    /\ queue' = <<>>
    /\ UNCHANGED <<data, avgDifference, loading, pc, batching, parsed,
                   processedData, avgDiff, promise, failure, logged, clears>>

Next ==
    \/ StartLoad
    \/ StartLoadThrows
    \/ ReadReject
    \/ ReadResolveNotText
    \/ ReadResolve
    \/ SecondWrite
    \/ ThirdWrite
    \/ Flush
    \/ Unmount

Spec == Init /\ [][Next]_vars

\* a resumed loadData runs to its end and scheduled renders happen; the read
\* itself may never complete
FairSpec ==
    /\ Spec
    /\ WF_vars(SecondWrite)
    /\ WF_vars(ThirdWrite)
    /\ WF_vars(Flush)

(***************************************************************************)
(* Properties                                                              *)
(***************************************************************************)
\* the load succeeded and its result is in the view state
Loaded == failure = "none" /\ ~loading

\* nothing is left to run on a live component
Settled == pc = "done" /\ mounted /\ queue = <<>>

ReadFailed == failure \in {"readFile throws", "readFile rejects"}

\* C1: when the file read fails (rejects or throws), loadData has logged the
\* failure once and its promise is fulfilled, not rejected; the Dataset is
\* empty, and once the live component has rendered, the loading flag is false
\* and the chart shows the empty Dataset.
C1_FailedReadEndsEmptyAndLoaded ==
    (ReadFailed /\ pc = "done") =>
        /\ promise = "fulfilled"
        /\ logged = 1
        /\ data = <<>>
        /\ Settled => (~loading /\ view.kind = "chart" /\ view.data = <<>>)

C1_Witness ==
    /\ failure = "readFile rejects"
    /\ Settled
    /\ batching
    /\ ~loading
    /\ view.kind = "chart"

\* C2: the loading flag is true until the read completes; its only change is from true to false,
\* made when the load has run to its end; setLoading is called exactly once
\* per load, on the success path and on the failure path alike; once the read
\* has completed, the flag of a component that stays mounted becomes false;
\* and once false it stays false.
C2_LoadingClearedOnce ==
    /\ [](pc \in {"start", "pending"} => loading)
    /\ [][loading' # loading => (loading /\ ~loading' /\ pc' = "done")]_vars
    /\ [][~loading => ~loading']_vars
    /\ [](clears <= 1 /\ (pc = "done" => clears = 1))
    /\ [](Settled => ~loading)
    /\ (pc \notin {"start", "pending"}) ~> (~loading \/ ~mounted)

C2_Witness ==
    /\ failure = "none"
    /\ Settled
    /\ ~loading
    /\ clears = 1
    /\ Len(data) = 2

\* C3: whenever the loading flag is false, and whenever the last render
\* returned the chart, the Dataset and the average shown are both those of
\* the load (or, after a failed load, both the initial ones): never one new
\* and the other stale, whether the three writes are rendered one by one or
\* in one batch.
C3_NoPartialResultOnceLoaded ==
    LET result == ProcessedData(parsed)
        Whole(d, avg) ==
            IF failure = "none"
            THEN d = result /\ avg = AvgDiff(result)
            ELSE d = <<>> /\ avg = ZeroAverage
    IN  /\ ~loading => Whole(data, avgDifference)
        /\ view.kind = "chart" => Whole(view.data, view.avg)

C3_Witness ==
    /\ ~batching
    /\ failure = "none"
    /\ pc = "done"
    /\ view.kind = "chart"
    /\ Len(view.data) = 2
    /\ view.avg.t = "number"
    /\ view.avg # ZeroAverage

\* a value is present: neither undefined nor null
Present(x) == x.t \notin {"undefined", "null"}

\* C4: the Dataset is as long as the parsed row sequence and in its order;
\* rowIndex is the row's 'Row Index' value if that is present, and the
\* zero-based position otherwise, an empty (null) cell included.
C4_RowIndexIsColumnOrPosition ==
    Loaded =>
        /\ Len(data) = Len(parsed)
        /\ \A i \in 1..Len(data) :
              data[i].rowIndex = IF Present(parsed[i].RowIndex)
                                 THEN parsed[i].RowIndex
                                 ELSE Num(i - 1)

\* C5: every row's difference is its neuralNet minus its xgboost, where a
\* numeric AUROC cell gives its value and an absent one 0 (a row without a
\* Neural Net value has neuralNet 0 and difference 0 - xgboost), and no value
\* of the file's Difference cell changes the difference.
C5_DifferenceIsNeuralNetMinusXgboost ==
    Loaded =>
        \A i \in 1..Len(data) :
            LET r == data[i]
                raw == parsed[i]
            IN  /\ r.difference = Minus(r.neuralNet, r.xgboost)
                /\ raw.NeuralNet.t = "number" => r.neuralNet = raw.NeuralNet
                /\ raw.Xgboost.t = "number" => r.xgboost = raw.Xgboost
                /\ ~Present(raw.Xgboost) => r.xgboost = Num(0)
                /\ ~Present(raw.NeuralNet) =>
                      /\ r.neuralNet = Num(0)
                      /\ r.difference = Minus(Num(0), r.xgboost)
                /\ \A t \in OtherDifferenceTexts :
                      ProcessRow([raw EXCEPT !.Difference = DynamicType(t)],
                                 i - 1).difference = r.difference

C5_Witness ==
    /\ Loaded
    /\ Len(data) = 2
    /\ parsed[1].NeuralNet = Undefined
    /\ parsed[1].Xgboost = Num(80)
    /\ data[1].neuralNet = Num(0)
    /\ data[1].difference = Num(-80)
    /\ parsed[2].Xgboost = Null
    /\ data[2].difference = Num(0)

\* the rows of d whose difference is NaN
NaNRows(d) == {i \in 1..Len(d) : d[i].difference.t = "NaN"}

\* C6 as stated: the three tiles add up to the total for every Dataset.
C6_TilesAddUpToTotal ==
    view.kind = "chart" => view.wins + view.losses + view.ties = view.total

\* C6: every row is counted in at most one tile, and in exactly one unless
\* its difference is NaN: the three tiles add up to the total less the rows
\* whose difference is NaN, so to the total when no difference is NaN.
C6_TilesAddUpToRowsWithADifference ==
    view.kind = "chart" =>
        /\ view.total = Len(view.data)
        /\ view.wins + view.losses + view.ties
              = view.total - Cardinality(NaNRows(view.data))
        /\ view.wins + view.losses <= view.total - view.ties
        /\ \A i \in 1..Len(view.data) :
              LET r == view.data[i]
              IN  /\ ~(IsWin(r) /\ IsLoss(r))
                  /\ ~(IsWin(r) /\ IsTie(r))
                  /\ ~(IsLoss(r) /\ IsTie(r))
                  /\ (IsWin(r) \/ IsLoss(r) \/ IsTie(r)) <=> r.difference.t # "NaN"

C6_Witness ==
    /\ view.kind = "chart"
    /\ view.total = 2
    /\ view.wins = 1
    /\ view.losses = 0
    /\ view.ties = 0

RECURSIVE SumOfDifferences(_, _)
\* the sum of the differences of the rows of d whose positions are in S
SumOfDifferences(d, S) ==
    IF S = {} THEN 0
    ELSE LET i == CHOOSE x \in S : TRUE
         IN  d[i].difference.v + SumOfDifferences(d, S \ {i})

\* C7: the average of a successful load is the sum of the differences that
\* are not NaN divided by their number, and NaN when there is none (the
\* empty Dataset included).
C7_AverageIsMeanOfValidDifferences ==
    Loaded =>
        LET valid == (1..Len(data)) \ NaNRows(data)
            n == Cardinality(valid)
        IN  IF n = 0
            THEN avgDifference = NaNAverage
            ELSE /\ avgDifference.t = "number"
                 /\ avgDifference.den > 0
                 /\ avgDifference.num * n
                       = SumOfDifferences(data, valid) * avgDifference.den

C7_Witness ==
    /\ Loaded
    /\ Len(data) = 2
    /\ data[1].xgboost = Num(90) /\ data[1].neuralNet = Num(85)
    /\ data[2].xgboost = Num(80) /\ data[2].neuralNet = Num(95)
    /\ avgDifference = [t |-> "number", num |-> 5, den |-> 1]

C10_FailedLoadKeepsInitialResult ==
    /\ failure # "none" =>
          /\ data = <<>>
          /\ avgDifference = ZeroAverage
          /\ \A k \in 1..Len(queue) : queue[k].field = "loading"
          /\ view.kind = "chart" =>
                (view.data = <<>> /\ view.avg = ZeroAverage /\ view.total = 0)
    /\ failure = "none" /\ view.kind = "chart" /\ parsed = <<>> =>
          (view.data = <<>> /\ view.avg = NaNAverage)

C10_Witness ==
    /\ failure = "Papa.parse throws"
    /\ Settled
    /\ view.kind = "chart"
    /\ view.avg = ZeroAverage
    /\ ~loading

====
